---- MODULE Spec2Model ----
(***************************************************************************)
(* State-machine model of the image generation batch tool:                 *)
(*   main.py            ImageGenerationApp (process_table,                  *)
(*                      process_all_tables) and main()                     *)
(*   image_generator.py ImageGenerator (generate_image, download_image,    *)
(*                      generate_and_save)                                 *)
(*   server_uploader.py ServerUploader.upload_file                         *)
(*   db_reader.py       DatabaseReader (find_empty_image_url_rows,         *)
(*                      generate_prompt_from_row, update_image_url)        *)
(*   config.py          DB_TABLES and the defaults                         *)
(*                                                                         *)
(* Python values are modelled as follows.  An Optional[int] argument is a  *)
(* record [given, n] (given = FALSE is None).  A path or URL is a record   *)
(* [root, dir, name] whose name is the file stem [table, id]; None, SQL    *)
(* NULL and the empty string are distinguished records of the same shape.  *)
(* A column value is represented by its Python type ("str" or "int").      *)
(***************************************************************************)
EXTENDS Integers, Sequences, FiniteSets, TLC

(* ------------------------------ bounds -------------------------------- *)
\* candidate rows in the whole store
MaxRows == 2
\* largest --limit value tried (the smallest is -1)
MaxLimit == 2
\* largest number of consecutive failures of the provider stub
MaxFail == 3
\* largest max_retries a direct caller of generate_image passes
MaxRetriesArg == 4
\* calls of upload_file made one after the other
MaxCalls == 2
\* pieces a text value given to _sanitize_value is put together from
MaxWords == 3
\* passes of _sanitize_value over one value
MaxPasses == 2

(* --------------------------- configuration ---------------------------- *)
MAX_RETRIES == 3
IMAGE_URL_BASE == "/images"
SERVER_IMAGE_PATH == "/data/images"
PROVIDER_HOST == "https://provider"

\* config.DB_TABLES.keys(), in insertion order
TableNames == <<"tb_dress", "tb_dress_shop", "tb_wedding_hall", "tb_makeup_shop">>
Tables == {TableNames[k] : k \in 1..Len(TableNames)}

prompt_fields(t) ==
    CASE t = "tb_dress" ->
           <<"name", "type", "color", "shape", "mood", "neck_line", "fabric", "features">>
      [] t = "tb_dress_shop" -> <<"shop_name", "description", "features", "specialty">>
      [] t = "tb_wedding_hall" -> <<"name", "venue_type", "parking">>
      [] t = "tb_makeup_shop" -> <<"shop_name", "description", "features", "specialty">>

(* ------------------------------ values -------------------------------- *)
NoFile == [table |-> "", id |-> 0]
None == [root |-> "None", dir |-> "", name |-> NoFile]
NULL == [root |-> "NULL", dir |-> "", name |-> NoFile]
EmptyStr == [root |-> "", dir |-> "", name |-> NoFile]

\* Python truthiness of an Optional[str]
Truthy(x) == x # None /\ x # EmptyStr

NoInt == [given |-> FALSE, n |-> 0]
Some(k) == [given |-> TRUE, n |-> k]
\* Python truthiness of an Optional[int]: None and 0 are falsy
TruthyInt(o) == o.given /\ o.n # 0

\* main.py:83  filename = f"{table_name}_{row_id}"
Filename(t, row_id) == [table |-> t, id |-> row_id]

\* server_uploader.py:64-65  the physical remote path of the pushed file
RemoteFile(t, filename) == [root |-> SERVER_IMAGE_PATH, dir |-> t, name |-> filename]

\* server_uploader.py:80  the logical path the store receives
UrlPath(t, filename) == [root |-> IMAGE_URL_BASE, dir |-> t, name |-> filename]

\* the provider's transient URL for the image it generated for this file
ProviderUrl(filename) == [root |-> PROVIDER_HOST, dir |-> "", name |-> filename]

RECURSIVE Pow2(_)
Pow2(k) == IF k <= 0 THEN 1 ELSE 2 * Pow2(k - 1)

Min(a, b) == IF a < b THEN a ELSE b
Max(a, b) == IF a > b THEN a ELSE b

\* Python's seq[:k] for any integer k
SliceTo(s, k) ==
    IF k >= 0 THEN SubSeq(s, 1, Min(k, Len(s)))
    ELSE SubSeq(s, 1, Max(0, Len(s) + k))

VARIABLES
    args,             \* parsed command line: [table, limit, dry_run]
    db,               \* the store: table name -> sequence of rows [id, image_url, v]
    localFiles,       \* output directory: set of [name, content]
    remoteFiles,      \* files on the remote host: set of [path, content]
    remoteDirs,       \* remote directories that exist
    pc,               \* control location
    todo,             \* tables still to process (the loop of process_all_tables)
    empty_rows,       \* process_table locals
    rows_to_process,
    skipped_count,
    i,
    success_count,
    failed_count,
    dalle_url,
    server_url_path,
    results,          \* self.results
    total_stats,      \* process_all_tables accumulator
    stats,            \* last value returned by process_table
    dry_msg,          \* the count printed by the dry-run "would be skipped" line
    g,                \* generate_image frame (arguments, effective values, loop state, result)
    provider,         \* provider stub: failures left before it answers
    log,              \* stage calls made so far: sequence of [op, table, id, ok]
    u,                \* upload_file frame (arguments, locals, handles, result)
    san,              \* _sanitize_value called on its own: the string and its passes
    prm               \* generate_prompt_from_row called on its own: descriptor, row, prompt

vars == <<args, db, localFiles, remoteFiles, remoteDirs, pc, todo, empty_rows,
          rows_to_process, skipped_count, i, success_count, failed_count,
          dalle_url, server_url_path, results, total_stats, stats, dry_msg,
          g, provider, log, u, san, prm>>

(* ------------------------------- store -------------------------------- *)
\* db_reader.py:24  WHERE image_url IS NULL OR image_url = ''
IsEmptyUrl(url) == url = NULL \/ url = EmptyStr

find_all_rows(rows) == rows
\* db_reader.py:18-32
find_empty_image_url_rows(rows) == SelectSeq(rows, LAMBDA r : IsEmptyUrl(r.image_url))

update_rows_not_committed(rows, row_id, image_url) == rows
update_rows_every_row(rows, row_id, image_url) ==
    [k \in DOMAIN rows |-> [rows[k] EXCEPT !.image_url = image_url]]
\* db_reader.py:118-127  UPDATE ... SET image_url = :image_url WHERE id = :row_id
update_rows(rows, row_id, image_url) ==
    [k \in DOMAIN rows |->
        IF rows[k].id = row_id THEN [rows[k] EXCEPT !.image_url = image_url]
        ELSE rows[k]]

(* ---------------------------- text values ----------------------------- *)
\* A str is the sequence of its characters.
\* str.replace(old, new): every occurrence found from left to right, none
\* overlapping, is replaced
RECURSIVE replace(_, _, _)
replace(s, old, new) ==
    IF Len(s) < Len(old) THEN s
    ELSE IF SubSeq(s, 1, Len(old)) = old
         THEN new \o replace(SubSeq(s, Len(old) + 1, Len(s)), old, new)
         ELSE <<Head(s)>> \o replace(Tail(s), old, new)

\* the printable ASCII characters in code point order, from 32 (space) to 126
\* (the grave accent, 96, is written U+0060)
Ascii ==
    <<" ", "!", "\"", "#", "$", "%", "&", "'", "(", ")", "*", "+", ",", "-", ".", "/",
    "0", "1", "2", "3", "4", "5", "6", "7", "8", "9", ":", ";", "<", "=", ">", "?", "@",
    "A", "B", "C", "D", "E", "F", "G", "H", "I", "J", "K", "L", "M", "N", "O", "P", "Q",
    "R", "S", "T", "U", "V", "W", "X", "Y", "Z", "[", "\\", "]", "^", "_", "U+0060", "a",
    "b", "c", "d", "e", "f", "g", "h", "i", "j", "k", "l", "m", "n", "o", "p", "q", "r",
    "s", "t", "u", "v", "w", "x", "y", "z", "{", "|", "}", "~">>

\* two Hangul syllables, standing for the Korean text of the store, and their
\* code points
Hangul == <<"U+D770", "U+C0C9">>
HangulCode == <<55152, 49353>>

\* Python's ord and chr
ord(char) ==
    IF \E k \in 1..Len(Ascii) : Ascii[k] = char
    THEN 31 + (CHOOSE k \in 1..Len(Ascii) : Ascii[k] = char)
    ELSE HangulCode[CHOOSE k \in 1..Len(Hangul) : Hangul[k] = char]
chr(n) == Ascii[n - 31]

\* str.upper, str.lower on one character (Hangul has no case)
isupper(char) == ord(char) \in 65..90
islower(char) == ord(char) \in 97..122
upper(char) == IF islower(char) THEN chr(ord(char) - 32) ELSE char
lower(char) == IF isupper(char) THEN chr(ord(char) + 32) ELSE char
str_lower(s) == [k \in 1..Len(s) |-> lower(s[k])]

\* str.title: a cased character is upper case after an uncased one (or at
\* the start) and lower case after a cased one
RECURSIVE title_from(_, _)
title_from(s, after_cased) ==
    IF s = <<>> THEN <<>>
    ELSE LET c == Head(s)
         IN  IF isupper(c) \/ islower(c)
             THEN <<IF after_cased THEN lower(c) ELSE upper(c)>> \o title_from(Tail(s), TRUE)
             ELSE <<c>> \o title_from(Tail(s), FALSE)
title(s) == title_from(s, FALSE)

\* str(n) for an int
RECURSIVE digits(_)
digits(n) == IF n < 10 THEN <<chr(48 + n)>> ELSE digits(n \div 10) \o <<chr(48 + (n % 10))>>
str_int(n) == IF n < 0 THEN <<"-">> \o digits(0 - n) ELSE digits(n)

\* the characters put together, as they are printed
RECURSIVE Text(_)
Text(s) == IF s = <<>> THEN "" ELSE Head(s) \o Text(Tail(s))

join_unseparated(sep, parts) ==
    IF parts = <<>> THEN "" ELSE Text(parts)
\* str.join
RECURSIVE join(_, _)
join(sep, parts) ==
    IF parts = <<>> THEN ""
    ELSE IF Len(parts) = 1 THEN parts[1]
    ELSE parts[1] \o sep \o join(sep, Tail(parts))

\* the values of a column: NULL, text, or a number
NoValue == [k |-> "None"]
Str(s) == [k |-> "str", s |-> s]
IntValue(n) == [k |-> "int", n |-> n]
TruthyValue(v) == (v.k = "str" /\ v.s # <<>>) \/ (v.k = "int" /\ v.n # 0)
\* str(value)
str(v) == IF v.k = "str" THEN v.s ELSE str_int(v.n)

\* db_reader.py:40-45  the dict, in insertion order
replacements ==
    <<[old |-> <<"S", "E", "X", "Y">>,
       new |-> <<"S", "o", "p", "h", "i", "s", "t", "i", "c", "a", "t", "e", "d">>],
      [old |-> <<"s", "e", "x", "y">>,
       new |-> <<"s", "o", "p", "h", "i", "s", "t", "i", "c", "a", "t", "e", "d">>],
      [old |-> <<"S", "E", "X", "Y", "_", "E", "L", "E", "G", "A", "N", "T">>,
       new |-> <<"E", "l", "e", "g", "a", "n", "t", " ", "a", "n", "d", " ", "S", "o",
              "p", "h", "i", "s", "t", "i", "c", "a", "t", "e", "d">>],
      [old |-> <<"S", "e", "x", "y", " ", "E", "l", "e", "g", "a", "n", "t">>,
       new |-> <<"E", "l", "e", "g", "a", "n", "t", " ", "a", "n", "d", " ", "S", "o",
              "p", "h", "i", "s", "t", "i", "c", "a", "t", "e", "d">>]>>

\* db_reader.py:47-48  the loop over the first k replacements
RECURSIVE apply_replacements(_, _)
apply_replacements(value, k) ==
    IF k = 0 THEN value
    ELSE replace(apply_replacements(value, k - 1), replacements[k].old, replacements[k].new)

\* db_reader.py:34-50
_sanitize_value(value) ==
    IF value = <<>> THEN value ELSE apply_replacements(value, Len(replacements))

(* --------------------------- prompt builder --------------------------- *)
\* The branches of generate_prompt_from_row that call a str method on the
\* value or iterate over it (db_reader.py:85, 88, 91, 95, 98, 101): they raise
\* for a truthy value that is not a str.  The suppressed fields, fabric and
\* parking accept any value.
StrOnlyFields == {"venue_type", "type", "color", "shape", "mood", "neck_line"}

field_raises(field, v) == v = "int" /\ field \in StrOnlyFields

\* db_reader.py:52-112  does generate_prompt_from_row raise for this row?
prompt_raises(t, row) ==
    \E k \in 1..Len(prompt_fields(t)) : field_raises(prompt_fields(t)[k], row.v)

\* config.py:29-50  prompt_template of each descriptor
prompt_template(t) ==
    CASE t = "tb_dress" -> "wedding_dress"
      [] t = "tb_dress_shop" -> "wedding_dress_shop"
      [] t = "tb_wedding_hall" -> "wedding_hall"
      [] t = "tb_makeup_shop" -> "makeup_shop"

\* db_reader.py:56-63  what the template appends first
opening(template) ==
    CASE template = "wedding_dress" ->
           <<"A professional product photograph of a beautiful wedding dress on a display.">>
      [] template = "wedding_dress_shop" ->
           <<"A professional photograph of a wedding dress shop interior.">>
      [] template = "wedding_hall" ->
           <<"A professional photograph of a wedding venue.">>
      [] template = "makeup_shop" ->
           <<"A professional photograph of a wedding makeup salon interior.">>
      [] OTHER -> <<>>

\* db_reader.py:111
closing == "High quality, professional, bright lighting, elegant atmosphere."

ascii_any(s) == \E k \in 1..Len(s) : ord(s[k]) < 128
\* db_reader.py:91, 95  all(ord(char) < 128 for char in value)
ascii_only(s) == \A k \in 1..Len(s) : ord(s[k]) < 128

\* db_reader.py:85, 88, 98, 101  value.replace('_', ' ').title()
spaced_title(s) == title(replace(s, <<"_">>, <<" ">>))

\* db_reader.py:66-109  what one iteration of the loop appends for a field
\* and the value row.get(field)
render(field, value) ==
    IF ~TruthyValue(value) THEN <<>>
    ELSE LET v == IF value.k = "str" THEN Str(_sanitize_value(value.s)) ELSE value
         IN  CASE field \in {"shop_name", "name"} -> <<>>
               [] field = "description" -> <<>>
               [] field = "features" -> <<>>
               [] field = "specialty" -> <<>>
               [] field = "venue_type" -> <<"Venue type: " \o Text(spaced_title(v.s)) \o ".">>
               [] field = "type" -> <<"Style: " \o Text(spaced_title(v.s)) \o ".">>
               [] field = "color" ->
                    IF v.s # <<>> /\ ascii_only(v.s)
                    THEN <<"Color: " \o Text(v.s) \o ".">> ELSE <<>>
               [] field = "shape" ->
                    IF v.s # <<>> /\ ascii_only(v.s)
                    THEN <<"Silhouette: " \o Text(v.s) \o ".">> ELSE <<>>
               [] field = "mood" -> <<"Mood: " \o Text(spaced_title(v.s)) \o ".">>
               [] field = "neck_line" -> <<"Neckline: " \o Text(spaced_title(v.s)) \o ".">>
               [] field = "fabric" -> <<"Fabric: " \o Text(str(v)) \o ".">>
               [] field = "parking" ->
                    IF v.k = "int" /\ v.n > 0
                    THEN <<"Parking available for " \o Text(str_int(v.n)) \o " cars.">>
                    ELSE IF str_lower(str(v)) \in {<<"t", "r", "u", "e">>, <<"y", "e", "s">>,
                                                   <<"1">>}
                    THEN <<"With parking available.">>
                    ELSE <<>>
               [] OTHER -> <<>>

\* db_reader.py:66  row.get(field)
row_get(r, field) == IF field \in DOMAIN r THEN r[field] ELSE NoValue

\* db_reader.py:54-109  prompt_parts after the first k fields, each part with
\* the field whose iteration appended it
RECURSIVE prompt_parts(_, _, _)
prompt_parts(t, r, k) ==
    IF k = 0
    THEN [j \in 1..Len(opening(prompt_template(t))) |->
            [field |-> "", text |-> opening(prompt_template(t))[j]]]
    ELSE LET field == prompt_fields(t)[k]
             new == render(field, row_get(r, field))
         IN  prompt_parts(t, r, k - 1) \o
             [j \in 1..Len(new) |-> [field |-> field, text |-> new[j]]]

\* db_reader.py:52-112
generate_prompt_from_row(t, r) ==
    LET parts == prompt_parts(t, r, Len(prompt_fields(t))) \o
                 <<[field |-> "", text |-> closing]>>
    IN  [prompt_parts |-> parts,
         prompt |-> join(" ", [j \in 1..Len(parts) |-> parts[j].text])]

(* -------------------------- image generator --------------------------- *)
VALID_SIZES == {"256x256", "512x512", "1024x1024"}
IMAGE_SIZE == "512x512"

\* image_generator.py:41  max_retries = max_retries or config.MAX_RETRIES
effective_retries(max_retries) ==
    IF TruthyInt(max_retries) THEN max_retries.n ELSE MAX_RETRIES

effective_size_unvalidated(size, image_size) ==
    IF size = "None" \/ size = "" THEN image_size ELSE size
\* image_generator.py:39, 44-47  image_size is the value of config.IMAGE_SIZE
effective_size(size, image_size) ==
    LET s == IF size = "None" \/ size = "" THEN image_size ELSE size
    IN  IF s \in VALID_SIZES THEN s ELSE "512x512"

retry_allowed_one_short(attempt, max_retries) == attempt < max_retries - 2
\* image_generator.py:67  is there another attempt after a failed one?
retry_allowed(attempt, max_retries) == attempt < max_retries - 1

\* image_generator.py:39-47  the frame of one generate_image call
generate_image_frame(file, size, image_size, max_retries, stub, ret) ==
    [file |-> file, arg_size |-> size, image_size |-> image_size,
     arg_max_retries |-> max_retries, stub |-> stub,
     size |-> effective_size(size, image_size),
     max_retries |-> effective_retries(max_retries),
     attempt |-> 0, calls |-> 0, sent |-> {}, sleeps |-> <<>>, result |-> None, ret |-> ret]

NoFrame == generate_image_frame(NoFile, "None", IMAGE_SIZE, NoInt, 0, "")

\* image_generator.py:86-100  the output directory after download_image
download_image(files, filename, ok) ==
    IF ok THEN {f \in files : f.name # filename} \cup {[name |-> filename, content |-> "fresh"]}
    ELSE files

\* image_generator.py:121-127  the value generate_and_save returns: the
\* provider URL, whatever download_image returned
generate_and_save_result(image_url, saved) == image_url

(* ------------------------------ uploader ------------------------------ *)
UploadOutcomes == {"connect_failed", "sftp_failed", "stat_failed", "mkdir_failed",
                   "put_failed", "ok"}

\* server_uploader.py:52  local_file_path.exists()
local_exists(files, filename) == \E f \in files : f.name = filename

local_content(files, filename) == (CHOOSE f \in files : f.name = filename).content

\* server_uploader.py:40-91  the value upload_file returns
upload_file_result(exists, outcome, t, filename) ==
    IF exists /\ outcome = "ok" THEN UrlPath(t, filename) ELSE None

\* server_uploader.py:56-57 and the handles open on the remote host: the
\* frame of one upload_file call; open_sessions and open_sftp carry over from
\* the call before
upload_file_frame(t, file, files, prev) ==
    [table_name |-> t, filename |-> file, local_before |-> files, exists |-> FALSE,
     ssh |-> FALSE, sftp |-> FALSE, raised |-> "", outcome |-> "", result |-> None,
     sessions |-> 0, open_sessions |-> prev.open_sessions, open_sftp |-> prev.open_sftp,
     calls |-> prev.calls + 1]

NoUpload ==
    [table_name |-> "", filename |-> NoFile, local_before |-> {}, exists |-> FALSE,
     ssh |-> FALSE, sftp |-> FALSE, raised |-> "", outcome |-> "", result |-> None,
     sessions |-> 0, open_sessions |-> 0, open_sftp |-> 0, calls |-> 0]

\* the classes of the exceptions the calls inside upload_file raise
ExceptionClasses == {"OSError", "SSHException", "AuthenticationException", "Exception"}

caught_only_ssh_errors(e) == e \in {"SSHException", "AuthenticationException"}
\* server_uploader.py:83  except Exception
caught_by_except(e) == e \in ExceptionClasses

NoSanitize == [value |-> <<>>, passes |-> <<>>]
NoPrompt == [table |-> "", row |-> <<>>, prompt_parts |-> <<>>, prompt |-> ""]

(* ---------------------------- orchestrator ---------------------------- *)
apply_limit_off_by_one(rows, limit) ==
    IF TruthyInt(limit) THEN SliceTo(rows, limit.n + 1) ELSE rows
\* main.py:58  rows_to_process = empty_rows[:limit] if limit else empty_rows
apply_limit(rows, limit) == IF TruthyInt(limit) THEN SliceTo(rows, limit.n) ELSE rows

ZeroStats == [success |-> 0, failed |-> 0, skipped |-> 0]

dry_run_stats_limit_only(found, skipped) == [success |-> 0, failed |-> 0, skipped |-> skipped]
\* main.py:69
dry_run_stats(found, skipped) == [success |-> 0, failed |-> 0, skipped |-> found]

live_stats_without_skipped(s, f, k) == [success |-> s, failed |-> f, skipped |-> 0]
\* main.py:139-143
live_stats(s, f, k) == [success |-> s, failed |-> f, skipped |-> k]

Event(op, t, id, ok) == [op |-> op, table |-> t, id |-> id, ok |-> ok]

table_name == Head(todo)
row == rows_to_process[i]
row_id == row.id
filename == Filename(table_name, row_id)

(* ------------------------------- Init --------------------------------- *)
Limits == {NoInt} \cup {Some(k) : k \in -1..MaxLimit}
Args == [table : {"all"} \cup Tables, limit : Limits, dry_run : BOOLEAN]

\* A table holds one row that already has its image and cnt candidate rows
\* (image_url NULL or ''); at most one candidate row carries a non-str value.
initial_rows(t, cnt, bad) ==
    <<[id |-> 1, image_url |-> UrlPath(t, Filename(t, 1)), v |-> "str"]>> \o
    [k \in 1..cnt |->
        [id |-> k + 1,
         image_url |-> IF k % 2 = 1 THEN NULL ELSE EmptyStr,
         v |-> IF bad = Filename(t, k + 1) THEN "int" ELSE "str"]]

Candidates(cnt) == {Filename(t, k + 1) : t \in Tables, k \in 1..MaxRows} \cap
                   UNION {{Filename(t, k + 1) : k \in 1..cnt[t]} : t \in Tables}

Layouts(a) ==
    {cnt \in [Tables -> 0..MaxRows] :
        /\ cnt["tb_dress"] + cnt["tb_dress_shop"] + cnt["tb_wedding_hall"]
             + cnt["tb_makeup_shop"] <= MaxRows
        /\ a.table # "all" => \A t \in Tables \ {a.table} : cnt[t] = 0}

Idle ==
    /\ remoteFiles = {}
    /\ remoteDirs = {}
    /\ todo = <<>>
    /\ empty_rows = <<>>
    /\ rows_to_process = <<>>
    /\ skipped_count = 0
    /\ i = 0
    /\ success_count = 0
    /\ failed_count = 0
    /\ dalle_url = None
    /\ server_url_path = None
    /\ results = [success |-> <<>>, failed |-> <<>>, skipped |-> <<>>]
    /\ total_stats = ZeroStats
    /\ stats = ZeroStats
    /\ dry_msg = -1
    /\ log = <<>>

Init ==
    /\ args \in Args
    /\ \E cnt \in Layouts(args) :
         \E bad \in {NoFile} \cup Candidates(cnt) :
           \E stale \in BOOLEAN :
             /\ db = [t \in Tables |-> initial_rows(t, cnt[t], bad)]
             /\ localFiles = IF stale
                             THEN {[name |-> f, content |-> "stale"] : f \in Candidates(cnt)}
                             ELSE {}
    /\ Idle
    /\ pc = "main"
    /\ g = NoFrame
    /\ provider = 0
    /\ u = NoUpload
    /\ san = NoSanitize
    /\ prm = NoPrompt

(* ------------------------------ actions ------------------------------- *)
Log(e) == log' = Append(log, e)

\* main.py:238-246, 157-163  main() dispatches on --table
main_begin ==
    /\ pc = "main"
    /\ todo' = IF args.table = "all" THEN TableNames ELSE <<args.table>>
    /\ total_stats' = ZeroStats
    /\ pc' = "process_table"
    /\ UNCHANGED <<u, san, prm, args, db, localFiles, remoteFiles, remoteDirs, empty_rows,
                   rows_to_process, skipped_count, i, success_count, failed_count,
                   dalle_url, server_url_path, results, stats, dry_msg, g, provider, log>>

\* main.py:48-49 with db_reader.py:20-32: the read raises (no handler in
\* process_table or process_all_tables); main.py:251-253 exits with status 1
find_rows_raises ==
    /\ pc = "process_table"
    /\ pc' = "exit1"
    /\ Log(Event("find", table_name, 0, FALSE))
    /\ UNCHANGED <<u, san, prm, args, db, localFiles, remoteFiles, remoteDirs, todo, empty_rows,
                   rows_to_process, skipped_count, i, success_count, failed_count,
                   dalle_url, server_url_path, results, total_stats, stats, dry_msg,
                   g, provider>>

\* main.py:48-53  no candidate: return zeros at once
process_table_empty ==
    /\ pc = "process_table"
    /\ find_empty_image_url_rows(db[table_name]) = <<>>
    /\ empty_rows' = <<>>
    /\ rows_to_process' = <<>>
    /\ skipped_count' = 0
    /\ i' = 0
    /\ success_count' = 0
    /\ failed_count' = 0
    /\ stats' = ZeroStats
    /\ dry_msg' = -1
    /\ pc' = "returned"
    /\ Log(Event("find", table_name, 0, TRUE))
    /\ UNCHANGED <<u, san, prm, args, db, localFiles, remoteFiles, remoteDirs, todo, dalle_url,
                   server_url_path, results, total_stats, g, provider>>

\* main.py:48-59, 72-73  candidates found: apply the limit
process_table_begin ==
    /\ pc = "process_table"
    /\ LET rows == find_empty_image_url_rows(db[table_name])
           sel == apply_limit(rows, args.limit)
       IN  /\ rows # <<>>
           /\ empty_rows' = rows
           /\ rows_to_process' = sel
           /\ skipped_count' = Len(rows) - Len(sel)
    /\ i' = 1
    /\ success_count' = 0
    /\ failed_count' = 0
    /\ dry_msg' = -1
    /\ pc' = "row"
    /\ Log(Event("find", table_name, 0, TRUE))
    /\ UNCHANGED <<u, san, prm, args, db, localFiles, remoteFiles, remoteDirs, todo, dalle_url,
                   server_url_path, results, total_stats, stats, g, provider>>

\* main.py:65 and main.py:80: generate_prompt_from_row raises; nothing in
\* process_table catches it, main.py:251-253 exits with status 1
prompt_build_raises ==
    /\ pc = "row"
    /\ i <= Len(rows_to_process)
    /\ prompt_raises(table_name, row)
    /\ pc' = "exit1"
    /\ Log(Event("prompt", table_name, row_id, FALSE))
    /\ UNCHANGED <<u, san, prm, args, db, localFiles, remoteFiles, remoteDirs, todo, empty_rows,
                   rows_to_process, skipped_count, i, success_count, failed_count,
                   dalle_url, server_url_path, results, total_stats, stats, dry_msg,
                   g, provider>>

\* main.py:63-67  one iteration of the dry-run loop
dry_run_row ==
    /\ pc = "row"
    /\ args.dry_run
    /\ i <= Len(rows_to_process)
    /\ ~prompt_raises(table_name, row)
    /\ i' = i + 1
    /\ Log(Event("prompt", table_name, row_id, TRUE))
    /\ UNCHANGED <<u, san, prm, args, db, localFiles, remoteFiles, remoteDirs, pc, todo, empty_rows,
                   rows_to_process, skipped_count, success_count, failed_count,
                   dalle_url, server_url_path, results, total_stats, stats, dry_msg,
                   g, provider>>

\* main.py:68-69  end of the dry run
dry_run_return ==
    /\ pc = "row"
    /\ args.dry_run
    /\ i > Len(rows_to_process)
    /\ dry_msg' = skipped_count
    /\ stats' = dry_run_stats(Len(empty_rows), skipped_count)
    /\ pc' = "returned"
    /\ UNCHANGED <<u, san, prm, args, db, localFiles, remoteFiles, remoteDirs, todo, empty_rows,
                   rows_to_process, skipped_count, i, success_count, failed_count,
                   dalle_url, server_url_path, results, total_stats, g, provider, log>>

\* main.py:75-89 entering generate_and_save (image_generator.py:121) and
\* generate_image up to its loop (image_generator.py:39-47).  The provider's
\* behaviour during the call is drawn here: it fails n times, then answers.
live_row_begin ==
    /\ pc = "row"
    /\ ~args.dry_run
    /\ i <= Len(rows_to_process)
    /\ ~prompt_raises(table_name, row)
    /\ \E n \in 0..MaxFail :
         /\ provider' = n
         /\ g' = generate_image_frame(filename, "None", IMAGE_SIZE, NoInt, n,
                                       "generate_and_save")
    /\ dalle_url' = None
    /\ server_url_path' = None
    /\ pc' = "generate_image"
    /\ Log(Event("prompt", table_name, row_id, TRUE))
    /\ UNCHANGED <<u, san, prm, args, db, localFiles, remoteFiles, remoteDirs, todo, empty_rows,
                   rows_to_process, skipped_count, i, success_count, failed_count,
                   results, total_stats, stats, dry_msg>>

\* image_generator.py:49-73  one iteration of the retry loop (or the fall
\* through of an empty range, which returns None)
generate_image_step ==
    /\ pc = "generate_image"
    /\ IF g.attempt >= g.max_retries
       THEN /\ g' = [g EXCEPT !.result = None]
            /\ pc' = g.ret
            /\ UNCHANGED provider
       ELSE IF provider = 0
       THEN /\ g' = [g EXCEPT !.calls = @ + 1, !.sent = @ \cup {g.size},
                              !.result = ProviderUrl(g.file)]
            /\ pc' = g.ret
            /\ UNCHANGED provider
       ELSE /\ provider' = provider - 1
            /\ IF retry_allowed(g.attempt, g.max_retries)
               THEN /\ g' = [g EXCEPT !.calls = @ + 1, !.sent = @ \cup {g.size},
                                      !.sleeps = Append(@, Pow2(g.attempt)),
                                      !.attempt = @ + 1]
                    /\ UNCHANGED pc
               ELSE /\ g' = [g EXCEPT !.calls = @ + 1, !.sent = @ \cup {g.size},
                                      !.result = None]
                    /\ pc' = g.ret
    /\ UNCHANGED <<u, san, prm, args, db, localFiles, remoteFiles, remoteDirs, todo, empty_rows,
                   rows_to_process, skipped_count, i, success_count, failed_count,
                   dalle_url, server_url_path, results, total_stats, stats, dry_msg, log>>

\* image_generator.py:121-127 after generate_image returned, with
\* download_image (image_generator.py:86-100); main.py:86 binds the result
generate_and_save_return ==
    /\ pc = "generate_and_save"
    /\ IF Truthy(g.result)
       THEN \E saved \in BOOLEAN :
              /\ localFiles' = download_image(localFiles, filename, saved)
              /\ dalle_url' = generate_and_save_result(g.result, saved)
              /\ log' = log \o <<Event("generate", table_name, row_id, TRUE),
                                 Event("download", table_name, row_id, saved)>>
       ELSE /\ dalle_url' = generate_and_save_result(g.result, FALSE)
            /\ Log(Event("generate", table_name, row_id, FALSE))
            /\ UNCHANGED localFiles
    /\ pc' = "generated"
    /\ g' = NoFrame
    /\ provider' = 0
    /\ UNCHANGED <<u, san, prm, args, db, remoteFiles, remoteDirs, todo, empty_rows,
                   rows_to_process, skipped_count, i, success_count, failed_count,
                   server_url_path, results, total_stats, stats, dry_msg>>

Failed(reason) == [table |-> table_name, row_id |-> row_id, reason |-> reason]

generation_failed_unchecked(url) == FALSE
\* main.py:91  if not dalle_url
generation_failed(url) == ~Truthy(url)

record_generation_failed_unlogged ==
    /\ pc = "generated"
    /\ generation_failed(dalle_url)
    /\ failed_count' = failed_count + 1
    /\ i' = i + 1
    /\ pc' = "row"
    /\ UNCHANGED <<u, san, prm, args, db, localFiles, remoteFiles, remoteDirs, todo,
                   empty_rows, rows_to_process, skipped_count, success_count, dalle_url,
                   server_url_path, results, total_stats, stats, dry_msg, g, provider, log>>
\* main.py:91-98
record_generation_failed ==
    /\ pc = "generated"
    /\ generation_failed(dalle_url)
    /\ failed_count' = failed_count + 1
    /\ results' = [results EXCEPT !.failed = Append(@, Failed("image_generation_failed"))]
    /\ i' = i + 1
    /\ pc' = "row"
    /\ UNCHANGED <<u, san, prm, args, db, localFiles, remoteFiles, remoteDirs, todo, empty_rows,
                   rows_to_process, skipped_count, success_count, dalle_url,
                   server_url_path, total_stats, stats, dry_msg, g, provider, log>>

\* main.py:100-102 with upload_file (server_uploader.py:40-91)
upload_stage ==
    /\ pc = "generated"
    /\ ~generation_failed(dalle_url)
    /\ LET exists == local_exists(localFiles, filename)
       IN  \E outcome \in UploadOutcomes :
             /\ outcome = "mkdir_failed" => table_name \notin remoteDirs
             /\ ~exists => outcome = "connect_failed"
             /\ server_url_path' = upload_file_result(exists, outcome, table_name, filename)
             /\ remoteDirs' = IF exists /\ outcome \in {"put_failed", "ok"}
                              THEN remoteDirs \cup {table_name} ELSE remoteDirs
             /\ remoteFiles' =
                  IF exists /\ outcome = "ok"
                  THEN {f \in remoteFiles : f.path # RemoteFile(table_name, filename)} \cup
                       {[path |-> RemoteFile(table_name, filename),
                         content |-> local_content(localFiles, filename)]}
                  ELSE remoteFiles
             /\ Log(Event("upload", table_name, row_id, exists /\ outcome = "ok"))
    /\ pc' = "uploaded"
    /\ UNCHANGED <<u, san, prm, args, db, localFiles, todo, empty_rows, rows_to_process,
                   skipped_count, i, success_count, failed_count, dalle_url, results,
                   total_stats, stats, dry_msg, g, provider>>

record_upload_failed_unrecorded ==
    /\ pc = "uploaded"
    /\ ~Truthy(server_url_path)
    /\ i' = i + 1
    /\ pc' = "row"
    /\ UNCHANGED <<u, san, prm, args, db, localFiles, remoteFiles, remoteDirs, todo, empty_rows,
                   rows_to_process, skipped_count, success_count, failed_count, dalle_url,
                   server_url_path, results, total_stats, stats, dry_msg, g, provider, log>>
\* main.py:104-111
record_upload_failed ==
    /\ pc = "uploaded"
    /\ ~Truthy(server_url_path)
    /\ failed_count' = failed_count + 1
    /\ results' = [results EXCEPT !.failed = Append(@, Failed("server_upload_failed"))]
    /\ i' = i + 1
    /\ pc' = "row"
    /\ UNCHANGED <<u, san, prm, args, db, localFiles, remoteFiles, remoteDirs, todo, empty_rows,
                   rows_to_process, skipped_count, success_count, dalle_url,
                   server_url_path, total_stats, stats, dry_msg, g, provider, log>>

\* main.py:113-130 with update_image_url (db_reader.py:114-131)
write_back_stage ==
    /\ pc = "uploaded"
    /\ Truthy(server_url_path)
    /\ \E ok \in BOOLEAN :
         /\ db' = IF ok
                  THEN [db EXCEPT ![table_name] = update_rows(@, row_id, server_url_path)]
                  ELSE db
         /\ Log(Event("update", table_name, row_id, ok))
         /\ IF ok
            THEN /\ success_count' = success_count + 1
                 /\ results' = [results EXCEPT !.success =
                                  Append(@, [table |-> table_name, row_id |-> row_id,
                                             image_url |-> server_url_path,
                                             filename |-> filename])]
                 /\ UNCHANGED failed_count
            ELSE /\ failed_count' = failed_count + 1
                 /\ results' = [results EXCEPT !.failed = Append(@, Failed("db_update_failed"))]
                 /\ UNCHANGED success_count
    /\ i' = i + 1
    /\ pc' = "row"
    /\ UNCHANGED <<u, san, prm, args, localFiles, remoteFiles, remoteDirs, todo, empty_rows,
                   rows_to_process, skipped_count, dalle_url, server_url_path,
                   total_stats, stats, dry_msg, g, provider>>

\* main.py:132-143  end of the live loop
process_table_return ==
    /\ pc = "row"
    /\ ~args.dry_run
    /\ i > Len(rows_to_process)
    /\ results' = IF skipped_count > 0
                  THEN [results EXCEPT !.skipped =
                          Append(@, [table |-> table_name, count |-> skipped_count])]
                  ELSE results
    /\ stats' = live_stats(success_count, failed_count, skipped_count)
    /\ pc' = "returned"
    /\ UNCHANGED <<u, san, prm, args, db, localFiles, remoteFiles, remoteDirs, todo, empty_rows,
                   rows_to_process, skipped_count, i, success_count, failed_count,
                   dalle_url, server_url_path, total_stats, dry_msg, g, provider, log>>

\* main.py:163-170  process_all_tables takes the stats and moves on; after
\* the last table it prints the summary and main returns
next_table ==
    /\ pc = "returned"
    /\ args.table = "all"
    /\ total_stats' = [success |-> total_stats.success + stats.success,
                       failed |-> total_stats.failed + stats.failed,
                       skipped |-> total_stats.skipped + stats.skipped]
    /\ todo' = Tail(todo)
    /\ pc' = IF Tail(todo) = <<>> THEN "exit0" ELSE "process_table"
    /\ UNCHANGED <<u, san, prm, args, db, localFiles, remoteFiles, remoteDirs, empty_rows,
                   rows_to_process, skipped_count, i, success_count, failed_count,
                   dalle_url, server_url_path, results, stats, dry_msg, g, provider, log>>

\* main.py:245-246  a single table: summary of its stats, then main returns
single_table_done ==
    /\ pc = "returned"
    /\ args.table # "all"
    /\ total_stats' = stats
    /\ pc' = "exit0"
    /\ UNCHANGED <<u, san, prm, args, db, localFiles, remoteFiles, remoteDirs, todo, empty_rows,
                   rows_to_process, skipped_count, i, success_count, failed_count,
                   dalle_url, server_url_path, results, stats, dry_msg, g, provider, log>>

Next ==
    \/ main_begin
    \/ find_rows_raises
    \/ process_table_empty
    \/ process_table_begin
    \/ prompt_build_raises
    \/ dry_run_row
    \/ dry_run_return
    \/ live_row_begin
    \/ generate_image_step
    \/ generate_and_save_return
    \/ record_generation_failed
    \/ upload_stage
    \/ record_upload_failed
    \/ write_back_stage
    \/ process_table_return
    \/ next_table
    \/ single_table_done

Spec == Init /\ [][Next]_vars

(* ------------------- a live run the operator interrupts --------------- *)
\* main.py:248-250  KeyboardInterrupt raised between two stage calls of a
\* live run: nothing in process_table handles it, main prints and exits 1
interrupt ==
    /\ ~args.dry_run
    /\ \/ pc = "row" /\ i <= Len(rows_to_process)
       \/ pc \in {"generated", "uploaded"}
    /\ pc' = "interrupted"
    /\ UNCHANGED <<u, san, prm, args, db, localFiles, remoteFiles, remoteDirs, todo,
                   empty_rows, rows_to_process, skipped_count, i, success_count,
                   failed_count, dalle_url, server_url_path, results, total_stats, stats,
                   dry_msg, g, provider, log>>

NextInt == Next \/ interrupt

SpecInt == Init /\ [][NextInt]_vars

(* ---------------- generate_image called on its own -------------------- *)
SizeArgs == {"None", "", "256x256", "512x512", "1024x1024", "2048x2048"}
RetryArgs == {NoInt} \cup {Some(k) : k \in -1..MaxRetriesArg}
\* config.py:60  IMAGE_SIZE comes from the environment: the default, another
\* supported size, an unsupported one, or the empty string
ConfiguredSizes == {IMAGE_SIZE, "256x256", "2048x2048", ""}

InitGen ==
    /\ args = [table |-> "all", limit |-> NoInt, dry_run |-> FALSE]
    /\ db = [t \in Tables |-> <<>>]
    /\ localFiles = {}
    /\ Idle
    /\ pc = "generate_image"
    /\ \E size \in SizeArgs, image_size \in ConfiguredSizes,
          max_retries \in RetryArgs, n \in 0..MaxFail + 1 :
         /\ provider = n
         /\ g = generate_image_frame(NoFile, size, image_size, max_retries, n, "caller")
    /\ u = NoUpload
    /\ san = NoSanitize
    /\ prm = NoPrompt

NextGen == generate_image_step

SpecGen == InitGen /\ [][NextGen]_vars

\* The program is one thread of blocking calls: a step that can be taken is taken.
FairSpecGen == SpecGen /\ WF_vars(NextGen)

(* ----------------- upload_file called on its own ---------------------- *)
UpTables == {"tb_dress", "tb_dress_shop"}

InitUp ==
    /\ args = [table |-> "all", limit |-> NoInt, dry_run |-> FALSE]
    /\ db = [t \in Tables |-> <<>>]
    /\ \E S \in SUBSET UpTables :
         localFiles = {[name |-> Filename(t, 2), content |-> "fresh"] : t \in S}
    /\ Idle
    /\ pc = "caller"
    /\ g = NoFrame
    /\ provider = 0
    /\ u = NoUpload
    /\ san = NoSanitize
    /\ prm = NoPrompt

\* main.py:102  a call of upload_file, after the one before has returned
upload_call ==
    /\ pc \in {"caller", "upload_returned"}
    /\ u.calls < MaxCalls
    /\ \E t \in UpTables : u' = upload_file_frame(t, Filename(t, 2), localFiles, u)
    /\ pc' = "upload_file"
    /\ UNCHANGED <<san, prm, args, db, localFiles, remoteFiles, remoteDirs, todo,
                   empty_rows, rows_to_process, skipped_count, i, success_count,
                   failed_count, dalle_url, server_url_path, results, total_stats, stats,
                   dry_msg, g, provider, log>>

UpUnchanged ==
    UNCHANGED <<san, prm, args, db, localFiles, todo, empty_rows, rows_to_process,
                skipped_count, i, success_count, failed_count, dalle_url,
                server_url_path, results, total_stats, stats, dry_msg, g, provider, log>>

\* server_uploader.py:52-57  the local file is missing: None, before the try
upload_file_begin ==
    /\ pc = "upload_file"
    /\ IF local_exists(localFiles, u.filename)
       THEN /\ u' = [u EXCEPT !.exists = TRUE]
            /\ pc' = "get_ssh_client"
       ELSE /\ u' = [u EXCEPT !.result =
                        upload_file_result(FALSE, u.outcome, u.table_name, u.filename)]
            /\ pc' = "upload_returned"
    /\ UNCHANGED <<remoteFiles, remoteDirs>>
    /\ UpUnchanged

\* server_uploader.py:60 with _get_ssh_client (21-38): the client is a local
\* of _get_ssh_client; when connect raises it is raised on, unclosed, and ssh
\* of upload_file stays None.  connect fails before a transport exists (host
\* unreachable) or after (authentication rejected).
get_ssh_client ==
    /\ pc = "get_ssh_client"
    /\ \/ /\ u' = [u EXCEPT !.ssh = TRUE, !.sessions = @ + 1, !.open_sessions = @ + 1]
          /\ pc' = "open_sftp"
       \/ /\ u' = [u EXCEPT !.raised = "OSError", !.outcome = "connect_failed"]
          /\ pc' = "except"
       \/ /\ u' = [u EXCEPT !.raised = "AuthenticationException",
                             !.outcome = "connect_failed",
                             !.sessions = @ + 1, !.open_sessions = @ + 1]
          /\ pc' = "except"
    /\ UNCHANGED <<remoteFiles, remoteDirs>>
    /\ UpUnchanged

\* server_uploader.py:61
open_sftp ==
    /\ pc = "open_sftp"
    /\ \/ /\ u' = [u EXCEPT !.sftp = TRUE, !.open_sftp = @ + 1]
          /\ pc' = "stat"
       \/ /\ u' = [u EXCEPT !.raised = "SSHException", !.outcome = "sftp_failed"]
          /\ pc' = "except"
    /\ UNCHANGED <<remoteFiles, remoteDirs>>
    /\ UpUnchanged

\* server_uploader.py:64-72  sftp.stat(remote_dir): found, FileNotFoundError
\* (the directory is then created), or another error
stat_remote_dir ==
    /\ pc = "stat"
    /\ \/ /\ u.table_name \in remoteDirs
          /\ pc' = "put"
          /\ UNCHANGED u
       \/ /\ u.table_name \notin remoteDirs
          /\ pc' = "create_remote_directory"
          /\ UNCHANGED u
       \/ /\ u' = [u EXCEPT !.raised = "OSError", !.outcome = "stat_failed"]
          /\ pc' = "except"
    /\ UNCHANGED <<remoteFiles, remoteDirs>>
    /\ UpUnchanged

\* server_uploader.py:93-109  mkdir -p, its exit status checked, then chmod,
\* whose status is not read; exec_command itself may raise
create_remote_directory ==
    /\ pc = "create_remote_directory"
    /\ \/ /\ remoteDirs' = remoteDirs \cup {u.table_name}
          /\ pc' = "put"
          /\ UNCHANGED u
       \/ /\ u' = [u EXCEPT !.raised = "Exception", !.outcome = "mkdir_failed"]
          /\ pc' = "except"
          /\ UNCHANGED remoteDirs
       \/ /\ remoteDirs' = remoteDirs \cup {u.table_name}
          /\ u' = [u EXCEPT !.raised = "SSHException", !.outcome = "mkdir_failed"]
          /\ pc' = "except"
    /\ UNCHANGED remoteFiles
    /\ UpUnchanged

\* server_uploader.py:74-81  sftp.put, then return url_path; a transfer that
\* fails may have written part of the remote file
put_file ==
    /\ pc = "put"
    /\ LET path == RemoteFile(u.table_name, u.filename)
           others == {f \in remoteFiles : f.path # path}
       IN  \/ /\ remoteFiles' = others \cup
                    {[path |-> path, content |-> local_content(localFiles, u.filename)]}
              /\ u' = [u EXCEPT !.outcome = "ok",
                                 !.result = upload_file_result(TRUE, "ok", u.table_name,
                                                               u.filename)]
              /\ pc' = "finally"
           \/ /\ \E partial \in BOOLEAN :
                    remoteFiles' = IF partial
                                   THEN others \cup {[path |-> path, content |-> "partial"]}
                                   ELSE remoteFiles
              /\ u' = [u EXCEPT !.raised = "OSError", !.outcome = "put_failed"]
              /\ pc' = "except"
    /\ UNCHANGED remoteDirs
    /\ UpUnchanged

\* server_uploader.py:83-85
upload_except ==
    /\ pc = "except"
    /\ u' = IF caught_by_except(u.raised)
            THEN [u EXCEPT !.raised = "",
                           !.result = upload_file_result(u.exists, u.outcome,
                                                         u.table_name, u.filename)]
            ELSE u
    /\ pc' = "finally"
    /\ UNCHANGED <<remoteFiles, remoteDirs>>
    /\ UpUnchanged

\* server_uploader.py:87-91  close what the locals sftp and ssh refer to, then
\* return (or let an exception nothing caught go on)
upload_finally ==
    /\ pc = "finally"
    /\ u' = [u EXCEPT !.open_sftp = IF u.sftp THEN @ - 1 ELSE @,
                      !.open_sessions = IF u.ssh THEN @ - 1 ELSE @]
    /\ pc' = IF u.raised = "" THEN "upload_returned" ELSE "upload_raised"
    /\ UNCHANGED <<remoteFiles, remoteDirs>>
    /\ UpUnchanged

NextUp ==
    \/ upload_call
    \/ upload_file_begin
    \/ get_ssh_client
    \/ open_sftp
    \/ stat_remote_dir
    \/ create_remote_directory
    \/ put_file
    \/ upload_except
    \/ upload_finally

SpecUp == InitUp /\ [][NextUp]_vars

(* --------------- _sanitize_value called on its own -------------------- *)
\* pieces the values are put together from: the keywords of the replacement
\* table, parts of them, and neutral text
SanWords ==
    {<<"S", "E", "X", "Y">>,
     <<"s", "e", "x", "y">>,
     <<"S", "e", "x", "y", " ">>,
     <<"E", "l", "e", "g", "a", "n", "t">>,
     <<"_", "E", "L", "E", "G", "A", "N", "T">>,
     <<"S">>,
     <<"a", " ", "b">>}

RECURSIVE Texts(_)
Texts(n) == IF n = 0 THEN {<<>>}
            ELSE Texts(n - 1) \cup {t \o w : t \in Texts(n - 1), w \in SanWords}

InitSan ==
    /\ args = [table |-> "all", limit |-> NoInt, dry_run |-> FALSE]
    /\ db = [t \in Tables |-> <<>>]
    /\ localFiles = {}
    /\ Idle
    /\ pc = "caller"
    /\ g = NoFrame
    /\ provider = 0
    /\ u = NoUpload
    /\ san \in {[value |-> v, passes |-> <<>>] : v \in Texts(MaxWords)}
    /\ prm = NoPrompt

\* db_reader.py:70  one pass of _sanitize_value, over the value or over the
\* result of the pass before
sanitize_pass ==
    /\ Len(san.passes) < MaxPasses
    /\ san' = [san EXCEPT !.passes =
                 Append(@, _sanitize_value(IF @ = <<>> THEN san.value ELSE @[Len(@)]))]
    /\ UNCHANGED <<u, prm, args, db, localFiles, remoteFiles, remoteDirs, pc, todo,
                   empty_rows, rows_to_process, skipped_count, i, success_count,
                   failed_count, dalle_url, server_url_path, results, total_stats, stats,
                   dry_msg, g, provider, log>>

NextSan == sanitize_pass

SpecSan == InitSan /\ [][NextSan]_vars

(* ----------- generate_prompt_from_row called on its own --------------- *)
\* the values a column takes in the rows given to generate_prompt_from_row:
\* NULL, English or Korean text, and for parking also numbers
FieldValues(field) ==
    CASE field \in {"name", "shop_name"} ->
           {NoValue, Str(Hangul), Str(<<"R", "o", "s", "e">>)}
      [] field \in {"description", "features", "specialty"} ->
           {NoValue, Str(Hangul)}
      [] field = "type" ->
           {NoValue, Str(<<"a", "_", "l", "i", "n", "e">>),
            Str(<<"S", "E", "X", "Y", "_", "E", "L", "E", "G", "A", "N", "T">>)}
      [] field = "color" ->
           {NoValue, Str(<<>>), Str(<<"I", "v", "o", "r", "y">>), Str(Hangul),
            Str(<<"I", "v", "o", "r", "y", " ">> \o Hangul)}
      [] field = "shape" ->
           {NoValue, Str(<<"A", "-", "l", "i", "n", "e">>), Str(Hangul)}
      [] field = "mood" ->
           {NoValue, Str(<<"r", "o", "m", "a", "n", "t", "i", "c">>)}
      [] field = "neck_line" ->
           {NoValue, Str(<<"v", "_", "n", "e", "c", "k">>)}
      [] field = "fabric" ->
           {NoValue, Str(<<"s", "i", "l", "k">>), Str(Hangul)}
      [] field = "venue_type" ->
           {NoValue, Str(<<"g", "a", "r", "d", "e", "n", "_", "h", "a", "l", "l">>),
            Str(<<"H", "O", "T", "E", "L">>)}
      [] field = "parking" ->
           {NoValue, IntValue(0), IntValue(50), IntValue(-1), Str(<<"y", "e", "s">>),
            Str(<<"n", "o">>), Str(<<"T", "R", "U", "E">>), Str(<<"1">>)}

FieldsOf(t) == {prompt_fields(t)[k] : k \in 1..Len(prompt_fields(t))}

\* the rows of table t: the id column and the first k columns of prompt_fields
RECURSIVE RowsUpTo(_, _)
RowsUpTo(t, k) ==
    IF k = 0 THEN {[f \in {"id"} |-> IntValue(7)]}
    ELSE LET field == prompt_fields(t)[k]
         IN  {[f \in DOMAIN r \cup {field} |-> IF f = field THEN v ELSE r[f]] :
                 r \in RowsUpTo(t, k - 1), v \in FieldValues(field)}
RowsOf(t) == RowsUpTo(t, Len(prompt_fields(t)))

InitPrompt ==
    /\ args = [table |-> "all", limit |-> NoInt, dry_run |-> FALSE]
    /\ db = [t \in Tables |-> <<>>]
    /\ localFiles = {}
    /\ Idle
    /\ pc = "caller"
    /\ g = NoFrame
    /\ provider = 0
    /\ u = NoUpload
    /\ san = NoSanitize
    /\ \E t \in Tables : \E r \in RowsOf(t) :
         prm = [NoPrompt EXCEPT !.table = t, !.row = r]

\* main.py:65, 80  prompt = db_reader.generate_prompt_from_row(row)
prompt_call ==
    /\ pc = "caller"
    /\ LET ret == generate_prompt_from_row(prm.table, prm.row)
       IN  prm' = [prm EXCEPT !.prompt_parts = ret.prompt_parts, !.prompt = ret.prompt]
    /\ pc' = "prompt_returned"
    /\ UNCHANGED <<u, san, args, db, localFiles, remoteFiles, remoteDirs, todo,
                   empty_rows, rows_to_process, skipped_count, i, success_count,
                   failed_count, dalle_url, server_url_path, results, total_stats, stats,
                   dry_msg, g, provider, log>>

NextPrompt == prompt_call

SpecPrompt == InitPrompt /\ [][NextPrompt]_vars

(* ======================= properties of the pipeline =================== *)
RowIds == 1..(MaxRows + 1)

EventsOf(op, t, id) ==
    {k \in 1..Len(log) : log[k].op = op /\ log[k].table = t /\ log[k].id = id}
Has(op, t, id, ok) == \E k \in EventsOf(op, t, id) : log[k].ok = ok
FailedOf(t, id) ==
    {k \in 1..Len(results.failed) :
        results.failed[k].table = t /\ results.failed[k].row_id = id}
SuccessOf(t, id) ==
    {k \in 1..Len(results.success) :
        results.success[k].table = t /\ results.success[k].row_id = id}
OutcomesOf(t, id) == Cardinality(FailedOf(t, id)) + Cardinality(SuccessOf(t, id))
FailedWith(t, id, reason) ==
    /\ Cardinality(FailedOf(t, id)) = 1
    /\ SuccessOf(t, id) = {}
    /\ \A k \in FailedOf(t, id) : results.failed[k].reason = reason

StagePcs == {"generate_image", "generate_and_save", "generated", "uploaded"}
\* the record (t, id) is inside its pipeline
InFlight(t, id) == pc \in StagePcs /\ table_name = t /\ row_id = id
Exited == pc \in {"exit0", "exit1"}
StageOps == {"generate", "download", "upload", "update"}
StageEvents == {k \in 1..Len(log) : log[k].op \in StageOps}
ReadFailed == \E k \in 1..Len(log) : log[k].op = "find" /\ ~log[k].ok

\* C1: in live mode a failure of one record's stage (prompt build,
\* synthesize+save, publish, write-back) never aborts the batch: the run ends
\* abnormally only when a candidate read itself failed, every record selected
\* by process_table has exactly one terminal outcome when the call returns,
\* and a normal end of process_all_tables has read every table.
C1_FailureNeverAborts ==
    ~args.dry_run =>
        /\ pc = "exit1" => ReadFailed
        /\ pc = "returned" =>
             \A k \in 1..Len(rows_to_process) :
                 OutcomesOf(table_name, rows_to_process[k].id) = 1
        /\ (pc = "exit0" /\ args.table = "all") =>
             \A n \in 1..Len(TableNames) : Has("find", TableNames[n], 0, TRUE)

\* C2: a record whose synthesis fails (the provider call used up its
\* retries) ends failed with reason image_generation_failed, and no download,
\* publish or write-back call is made for it; a single candidate with a
\* synthesizer that always fails gives {success: 0, failed: 1, skipped: 0}.
C2_GenerationFailure ==
    /\ \A t \in Tables, id \in RowIds :
         Has("generate", t, id, FALSE) =>
            /\ \A op \in {"download", "upload", "update"} : EventsOf(op, t, id) = {}
            /\ \/ InFlight(t, id) /\ pc = "generated"
               \/ FailedWith(t, id, "image_generation_failed")
    /\ (pc = "generate_and_save" /\ ~Truthy(g.result)) =>
         (g.calls = MAX_RETRIES /\ g.stub >= MAX_RETRIES)
    /\ (/\ pc = "returned"
        /\ ~args.dry_run
        /\ Len(empty_rows) = 1
        /\ Has("generate", table_name, empty_rows[1].id, FALSE)) =>
         stats = [success |-> 0, failed |-> 1, skipped |-> 0]

C2_Witness ==
    /\ pc = "returned"
    /\ ~args.dry_run
    /\ Len(empty_rows) = 1
    /\ Has("generate", table_name, empty_rows[1].id, FALSE)
    /\ stats = [success |-> 0, failed |-> 1, skipped |-> 0]
    /\ StageEvents = EventsOf("generate", table_name, empty_rows[1].id)

\* C3: a dry run never calls the synthesizer, the publisher or the write-back
\* (whatever the candidates and the limit), and process_table returns
\* success = 0, failed = 0, skipped = the number of candidates found.
C3_DryRun ==
    args.dry_run =>
        /\ StageEvents = {}
        /\ pc \notin StagePcs
        /\ remoteFiles = {}
        /\ results = [success |-> <<>>, failed |-> <<>>, skipped |-> <<>>]
        /\ pc = "returned" =>
             stats = [success |-> 0, failed |-> 0,
                      skipped |-> Len(find_empty_image_url_rows(db[table_name]))]

C3_Witness ==
    /\ pc = "returned"
    /\ args.dry_run
    /\ ~args.limit.given
    /\ Len(find_empty_image_url_rows(db[table_name])) = 2
    /\ stats = [success |-> 0, failed |-> 0, skipped |-> 2]
    /\ Cardinality(EventsOf("prompt", table_name, 2) \cup EventsOf("prompt", table_name, 3)) = 2

\* records of the current table whose prompt was built in this call
Handled == {id \in RowIds : Has("prompt", table_name, id, TRUE)}
LimitCuts == /\ pc = "returned"
             /\ args.limit.given
             /\ 1 <= args.limit.n
             /\ args.limit.n < Len(empty_rows)

\* C4 as stated: with n candidates and a limit k, 1 <= k < n, process_table
\* handles exactly k records and reports skipped = n - k, in live mode and in
\* dry-run mode alike.
C4_Original ==
    LimitCuts =>
        /\ Cardinality(Handled) = args.limit.n
        /\ stats.skipped = Len(empty_rows) - args.limit.n

\* C4 amended: with n candidates and a limit k, 1 <= k < n, a process_table
\* call that returns has handled exactly k records (the first k); in live
\* mode it returns skipped = n - k, in dry-run mode it returns skipped = n
\* and only its printed "would be skipped" count is n - k.
C4_LimitCounts ==
    LimitCuts =>
        /\ Cardinality(Handled) = args.limit.n
        /\ Handled = {empty_rows[k].id : k \in 1..args.limit.n}
        /\ ~args.dry_run => stats.skipped = Len(empty_rows) - args.limit.n
        /\ args.dry_run => /\ stats.skipped = Len(empty_rows)
                           /\ dry_msg = Len(empty_rows) - args.limit.n

C4_Witness ==
    /\ LimitCuts
    /\ args.dry_run
    /\ Len(empty_rows) = 2
    /\ args.limit.n = 1
    /\ Handled = {empty_rows[1].id}
    /\ stats.skipped = 2
    /\ dry_msg = 1

\* C5: whenever a limit >= 0 is given to a live process_table (0 and values
\* above the number of candidates included), the records that enter the
\* pipeline are exactly the first min(limit, n) candidates in store order;
\* the others are counted as skipped and never synthesized, published or
\* written back.
C5_LimitPrefix ==
    (/\ ~args.dry_run
     /\ args.limit.given
     /\ args.limit.n >= 0
     /\ pc \in StagePcs \cup {"row", "returned"}
     /\ empty_rows # <<>>) =>
        LET m == Min(args.limit.n, Len(empty_rows))
        IN  /\ rows_to_process = SubSeq(empty_rows, 1, m)
            /\ skipped_count = Len(empty_rows) - m
            /\ \A k \in (m + 1)..Len(empty_rows) :
                 /\ ~Has("prompt", table_name, empty_rows[k].id, TRUE)
                 /\ \A op \in StageOps : EventsOf(op, table_name, empty_rows[k].id) = {}
            /\ pc = "returned" => stats.skipped = Len(empty_rows) - m

(* ===================== properties of generate_image =================== *)
RetriesExceedFailures == g.arg_max_retries.given /\ g.arg_max_retries.n > g.stub

\* C6: generate_image against a provider that fails N times and then
\* answers, called with max_retries > N, eventually returns the provider's
\* URL, after exactly N + 1 provider calls, and calls the provider no more.
C6_RetryThenSuccess ==
    /\ []((pc = "caller" /\ RetriesExceedFailures) =>
            /\ g.result = ProviderUrl(g.file)
            /\ g.calls = g.stub + 1
            /\ Len(g.sleeps) = g.stub)
    /\ (pc = "generate_image" /\ RetriesExceedFailures) ~> (pc = "caller" /\ Truthy(g.result))
    /\ [][pc = "caller" => g'.calls = g.calls]_vars

C6_Witness ==
    /\ pc = "caller"
    /\ g.arg_max_retries = Some(3)
    /\ g.stub = 2
    /\ g.calls = 3
    /\ g.result = ProviderUrl(g.file)

\* C7: generate_image against a provider that fails at least max_retries
\* times returns failure after exactly max_retries provider calls, having
\* slept 2^i seconds after failed attempt i for i = 0..max_retries-2 and not
\* after the last one, for every max_retries the caller passes.
C7_ExhaustedRetries ==
    (/\ pc = "caller"
     /\ g.arg_max_retries.given
     /\ g.arg_max_retries.n >= 0
     /\ g.stub >= g.arg_max_retries.n) =>
        /\ g.result = None
        /\ g.calls = g.arg_max_retries.n
        /\ Len(g.sleeps) = Max(0, g.arg_max_retries.n - 1)
        /\ \A k \in 1..Len(g.sleeps) : g.sleeps[k] = Pow2(k - 1)

(* ================= properties of the stages of a record =============== *)
\* C8: when the provider call succeeds but fetching or writing the image
\* fails, the synthesize+save stage has failed: generate_and_save returns
\* failure, the publisher is not called, and the record ends failed with
\* reason image_generation_failed.
C8_SaveFailureFailsStage ==
    \A t \in Tables, id \in RowIds :
        Has("download", t, id, FALSE) =>
            /\ EventsOf("upload", t, id) = {}
            /\ (InFlight(t, id) /\ pc = "generated") => ~Truthy(dalle_url)
            /\ InFlight(t, id) \/ Exited \/ FailedWith(t, id, "image_generation_failed")

StageReason(op) ==
    CASE op \in {"generate", "download"} -> "image_generation_failed"
      [] op = "upload" -> "server_upload_failed"
      [] op = "update" -> "db_update_failed"

FailedStages(t, id) ==
    {k \in StageEvents : log[k].table = t /\ log[k].id = id /\ ~log[k].ok}
FirstOf(S) == CHOOSE k \in S : \A j \in S : k <= j

\* C9: the reason recorded for a failed record names the first stage that
\* failed (publish after a good synthesize+save: server_upload_failed and no
\* write-back; write-back after a good publish: db_update_failed), and the
\* loop goes on to the next record.
C9_ReasonNamesFirstFailure ==
    /\ \A t \in Tables, id \in RowIds :
         /\ \A k \in FailedOf(t, id) :
              /\ FailedStages(t, id) # {}
              /\ results.failed[k].reason = StageReason(log[FirstOf(FailedStages(t, id))].op)
         /\ Has("upload", t, id, FALSE) => EventsOf("update", t, id) = {}
    /\ (pc = "returned" /\ ~args.dry_run) =>
         \A k \in 1..Len(rows_to_process) :
             OutcomesOf(table_name, rows_to_process[k].id) = 1

AllStagesOk(t, id) ==
    \A op \in StageOps : EventsOf(op, t, id) # {} /\ ~Has(op, t, id, FALSE)
StoredUrl(t, id) ==
    LET k == CHOOSE k \in DOMAIN db[t] : db[t][k].id = id IN db[t][k].image_url

\* C10: a record is counted as success if and only if synthesize+save,
\* publish and write-back all succeeded for it, and then its reference field
\* holds exactly <urlBase>/<table>/<table>_<id>.png: the publisher's logical
\* path, neither the provider's URL nor the physical remote path.
C10_SuccessIffAllStages ==
    \A t \in Tables, id \in RowIds :
        /\ SuccessOf(t, id) # {} <=> AllStagesOk(t, id)
        /\ SuccessOf(t, id) # {} =>
             /\ Cardinality(SuccessOf(t, id)) = 1
             /\ StoredUrl(t, id) = [root |-> IMAGE_URL_BASE, dir |-> t,
                                    name |-> [table |-> t, id |-> id]]
             /\ StoredUrl(t, id) # ProviderUrl(Filename(t, id))
             /\ StoredUrl(t, id) # RemoteFile(t, Filename(t, id))

(* ==================== properties of the store gateway ================= *)
IdsOf(rows) == {rows[k].id : k \in 1..Len(rows)}
UpdateIssued == Len(log') = Len(log) + 1 /\ log'[Len(log')].op = "update"
RowsWritten ==
    {<<t, k>> \in Tables \X (1..(MaxRows + 1)) :
        k \in DOMAIN db[t] /\ db'[t][k] # db[t][k]}

\* C11: the write-back is only issued for a record that
\* find_empty_image_url_rows returned in the same process_table call (its
\* image_url was NULL or '' when read), at most once per record per call,
\* and no other row of the store is written.
C11_WriteBackOnlyCandidates ==
    [][/\ UpdateIssued =>
            LET e == log'[Len(log')]
            IN  /\ e.table = table_name
                /\ e.id \in IdsOf(empty_rows)
                /\ e.id \in IdsOf(rows_to_process)
                /\ \A k \in DOMAIN db[e.table] :
                       db[e.table][k].id = e.id => IsEmptyUrl(db[e.table][k].image_url)
                /\ EventsOf("update", e.table, e.id) = {}
       /\ \A w \in RowsWritten :
            /\ UpdateIssued
            /\ w[1] = log'[Len(log')].table
            /\ db[w[1]][w[2]].id = log'[Len(log')].id
            /\ db'[w[1]][w[2]] = [db[w[1]][w[2]] EXCEPT !.image_url = server_url_path]
      ]_vars

C11_Witness ==
    /\ Has("update", "tb_dress", 2, TRUE)
    /\ Has("update", "tb_dress", 3, FALSE)
    /\ EventsOf("update", "tb_dress", 1) = {}
    /\ db["tb_dress"][1].image_url = UrlPath("tb_dress", Filename("tb_dress", 1))

\* C12: once update_image_url has returned true for a record, the record is
\* no longer among the rows find_empty_image_url_rows returns for its table;
\* so a record that ended a live pass as success is no candidate afterwards.
C12_UpdatedNotCandidate ==
    \A t \in Tables, id \in RowIds :
        (Has("update", t, id, TRUE) \/ SuccessOf(t, id) # {}) =>
            /\ id \notin IdsOf(find_empty_image_url_rows(db[t]))
            /\ id \in IdsOf(db[t])

C12_Witness ==
    /\ pc = "exit0"
    /\ SuccessOf("tb_wedding_hall", 2) # {}
    /\ IdsOf(find_empty_image_url_rows(db["tb_wedding_hall"])) = {3}

(* ===================== properties of the scheduling =================== *)
RecordOps == {"prompt"} \cup StageOps
\* the records some call has been made for and that have no terminal outcome
OpenRecords ==
    {r \in Tables \X RowIds :
        /\ \E k \in 1..Len(log) :
              log[k].op \in RecordOps /\ log[k].table = r[1] /\ log[k].id = r[2]
        /\ OutcomesOf(r[1], r[2]) = 0}
LastRead == log[CHOOSE k \in 1..Len(log) :
                  log[k].op = "find" /\ \A j \in (k + 1)..Len(log) : log[j].op # "find"]

\* C18: execution is strictly sequential.  In a live run at most one record
\* is inside its pipeline; a call made for a record finds every other record
\* that calls were made for with its terminal outcome, and the record itself
\* without one; and the candidate read of a table is issued only when every
\* record selected in the previous table has its terminal outcome.
C18_StrictlySequential ==
    [][~args.dry_run =>
         /\ Cardinality(OpenRecords) <= 1
         /\ \A k \in (Len(log) + 1)..Len(log') :
              LET e == log'[k]
              IN  /\ e.op \in RecordOps =>
                       /\ OpenRecords \subseteq {<<e.table, e.id>>}
                       /\ OutcomesOf(e.table, e.id) = 0
                       /\ pc \in {"row"} \cup StagePcs
                       /\ e.table = table_name /\ e.id = row_id
                  /\ e.op = "find" =>
                       /\ OpenRecords = {}
                       /\ log # <<>> =>
                            \A r \in 1..Len(rows_to_process) :
                                OutcomesOf(LastRead.table, rows_to_process[r].id) = 1
      ]_vars

C18_Witness ==
    /\ pc = "exit0"
    /\ ~args.dry_run
    /\ Has("upload", "tb_dress", 2, FALSE)
    /\ FailedWith("tb_dress", 2, "server_upload_failed")
    /\ Has("update", "tb_dress_shop", 2, TRUE)
    /\ OpenRecords = {}

(* ================== properties of the image generator ================= *)
\* the size generate_image starts from: the argument, or the configured
\* value when the argument is None or empty
RequestedSize == IF g.arg_size \in {"None", ""} THEN g.image_size ELSE g.arg_size

\* C14: every size generate_image sends to the provider is one of 256x256,
\* 512x512, 1024x1024: a supported size is sent as it is, an unsupported
\* caller-supplied or configured size is replaced by 512x512 before the first
\* attempt, and the call then proceeds (with a provider that answers, it
\* returns the URL).
C14_SizeSentIsSupported ==
    /\ g.sent \subseteq VALID_SIZES
    /\ g.calls > 0 => g.sent = {g.size}
    /\ g.size = IF RequestedSize \in VALID_SIZES THEN RequestedSize ELSE "512x512"
    /\ (pc = "caller" /\ g.max_retries >= 1) => g.calls >= 1
    /\ (pc = "caller" /\ g.max_retries >= 1 /\ g.stub = 0) => Truthy(g.result)

C14_Witness ==
    /\ pc = "caller"
    /\ g.arg_size = "2048x2048"
    /\ g.image_size = "256x256"
    /\ g.sent = {"512x512"}
    /\ g.calls = 2
    /\ Truthy(g.result)

(* ===================== properties of the publisher ==================== *)
UploadPcs == {"upload_file", "get_ssh_client", "open_sftp", "stat",
              "create_remote_directory", "put", "except", "finally", "upload_returned",
              "upload_raised"}
Pushed(t, file) ==
    \E f \in remoteFiles :
        f.path = RemoteFile(t, file) /\ f.content = local_content(localFiles, file)

\* C13: upload_file never raises when connect, open_sftp, the directory
\* check or creation, or the transfer fails: it returns None; it returns the
\* reference path only when the put completed (the remote file then holds
\* the local content); and the output directory is the same on every path.
C13_UploadFailureIsValue ==
    pc \in UploadPcs =>
        /\ pc # "upload_raised"
        /\ pc = "upload_returned" => u.raised = ""
        /\ (pc = "upload_returned" /\ u.outcome # "ok") => u.result = None
        /\ (pc = "upload_returned" /\ u.outcome = "ok") =>
               u.result = UrlPath(u.table_name, u.filename)
        /\ Truthy(u.result) => u.outcome = "ok" /\ Pushed(u.table_name, u.filename)
        /\ localFiles = u.local_before

C13_Witness ==
    /\ pc = "upload_returned"
    /\ u.calls = 2
    /\ u.outcome = "put_failed"
    /\ u.result = None
    /\ \E f \in remoteFiles :
          f.path = RemoteFile(u.table_name, u.filename) /\ f.content = "partial"
    /\ \E f \in remoteFiles : f.content = "fresh"

\* C19: when upload_file returns, on every path, every session and every
\* transfer handle opened during the call is closed; a call opens at most
\* one session; no handle is open when the next call starts.
C19_HandlesClosed ==
    /\ u.sessions <= 1
    /\ pc \in {"upload_returned", "upload_raised", "upload_file"} =>
          u.open_sessions = 0 /\ u.open_sftp = 0

(* ===================== properties of an interrupted run =============== *)
\* C20: when the operator interrupts a live run between two stage calls, the
\* remote host holds no file for the record in progress unless its write-back
\* was committed, and every record already counted as success still has the
\* reference that was written for it.
C20_InterruptLeavesNoOrphan ==
    pc = "interrupted" =>
        /\ (i <= Len(rows_to_process) /\ ~Has("update", table_name, row_id, TRUE)) =>
               \A f \in remoteFiles : f.path # RemoteFile(table_name, filename)
        /\ \A k \in 1..Len(results.success) :
               StoredUrl(results.success[k].table, results.success[k].row_id)
                   = results.success[k].image_url

(* ===================== properties of the prompt text ================== *)
\* C15: _sanitize_value is idempotent: for every string, a second pass of
\* the ordered replacements gives the result of the first pass.
C15_SanitizeIdempotent ==
    Len(san.passes) >= 2 => san.passes[2] = san.passes[1]

PartsOf(field) == {k \in 1..Len(prm.prompt_parts) : prm.prompt_parts[k].field = field}
AsciiOnlyLabel(field) == IF field = "color" THEN "Color: " ELSE "Silhouette: "

\* C16: for color and shape, generate_prompt_from_row emits the fragment of
\* the field (its label, the value, a full stop) if and only if the value is
\* not empty and every character of it has a code point below 128; a value
\* with a code point of 128 or more gives no fragment for the field.
C16_AsciiOnlyFields ==
    pc = "prompt_returned" =>
        \A field \in {"color", "shape"} \cap FieldsOf(prm.table) :
            LET v == prm.row[field]
                plain == /\ v.k = "str"
                         /\ v.s # <<>>
                         /\ \A k \in 1..Len(v.s) : ord(v.s[k]) < 128
            IN  /\ PartsOf(field) # {} <=> plain
                /\ Cardinality(PartsOf(field)) <= 1
                /\ \A k \in PartsOf(field) :
                       prm.prompt_parts[k].text =
                           AsciiOnlyLabel(field) \o Text(_sanitize_value(v.s)) \o "."
                /\ (v.k = "str" /\ \E k \in 1..Len(v.s) : ord(v.s[k]) >= 128) =>
                       PartsOf(field) = {}

C16_Witness ==
    /\ pc = "prompt_returned"
    /\ prm.table = "tb_dress"
    /\ prm.row["color"] = Str(<<"I", "v", "o", "r", "y", " ">> \o Hangul)
    /\ prm.row["shape"] = Str(<<"A", "-", "l", "i", "n", "e">>)
    /\ PartsOf("color") = {}
    /\ \E k \in PartsOf("shape") : prm.prompt_parts[k].text = "Silhouette: A-line."

Suppressed == {"name", "shop_name", "description", "features", "specialty"}
FieldIndex(t, field) == CHOOSE k \in 1..Len(prompt_fields(t)) : prompt_fields(t)[k] = field
\* the row with its id and its suppressed columns emptied
Cleared(r) == [f \in DOMAIN r |-> IF f \in Suppressed \cup {"id"} THEN NoValue ELSE r[f]]
RECURSIVE Spaced(_)
Spaced(parts) ==
    IF Len(parts) = 1 THEN parts[1].text
    ELSE Spaced(SubSeq(parts, 1, Len(parts) - 1)) \o " " \o parts[Len(parts)].text
\* the dress record {id: 7, type: a_line, color: Ivory, mood: romantic}
DressExample ==
    [f \in FieldsOf("tb_dress") \cup {"id"} |->
        CASE f = "id" -> IntValue(7)
          [] f = "type" -> Str(<<"a", "_", "l", "i", "n", "e">>)
          [] f = "color" -> Str(<<"I", "v", "o", "r", "y">>)
          [] f = "mood" -> Str(<<"r", "o", "m", "a", "n", "t", "i", "c">>)
          [] OTHER -> NoValue]

\* C17: for every descriptor and row the prompt is the opening sentence of
\* the template, the fragments of the rendered fields in the order
\* prompt_fields declares them, and the closing sentence, joined by single
\* spaces; no fragment comes from id or from name, shop_name, description,
\* features, specialty (emptying them leaves the prompt as it is); for the
\* dress {id: 7, type: a_line, color: Ivory, mood: romantic} the fragments
\* are "Style: A Line.", "Color: Ivory.", "Mood: Romantic.", in that order.
C17_PromptLayout ==
    pc = "prompt_returned" =>
        LET parts == prm.prompt_parts
            n == Len(parts)
        IN  /\ n >= 2
            /\ parts[1] = [field |-> "", text |-> opening(prompt_template(prm.table))[1]]
            /\ parts[n] = [field |-> "",
                           text |-> "High quality, professional, bright lighting, elegant atmosphere."]
            /\ \A k \in 2..(n - 1) :
                   /\ parts[k].field \in FieldsOf(prm.table) \ (Suppressed \cup {"id"})
                   /\ \A j \in 2..(k - 1) :
                          FieldIndex(prm.table, parts[j].field)
                              < FieldIndex(prm.table, parts[k].field)
            /\ prm.prompt = Spaced(parts)
            /\ prm.prompt = generate_prompt_from_row(prm.table, Cleared(prm.row)).prompt
            /\ (prm.table = "tb_dress" /\ prm.row = DressExample) =>
                   /\ [k \in 1..n |-> parts[k].text] =
                        <<"A professional product photograph of a beautiful wedding dress on a display.",
                          "Style: A Line.", "Color: Ivory.", "Mood: Romantic.",
                          "High quality, professional, bright lighting, elegant atmosphere.">>
                   /\ prm.prompt =
                        "A professional product photograph of a beautiful wedding dress on a display."
                        \o " Style: A Line. Color: Ivory. Mood: Romantic."
                        \o " High quality, professional, bright lighting, elegant atmosphere."

C17_Witness ==
    /\ pc = "prompt_returned"
    /\ prm.table = "tb_dress"
    /\ prm.row = DressExample
    /\ Len(prm.prompt_parts) = 5
    /\ prm.prompt_parts[2] = [field |-> "type", text |-> "Style: A Line."]

(* ===================== properties of the outcome log ================== *)
SuccessIn(t) == {k \in 1..Len(results.success) : results.success[k].table = t}
FailedIn(t) == {k \in 1..Len(results.failed) : results.failed[k].table = t}
InCall == pc \in {"row", "returned"} \cup StagePcs
Reasons == {"image_generation_failed", "server_upload_failed", "db_update_failed"}

\* C21: in a live run the outcome log self.results has exactly one success
\* entry (table, id, reference, filename) for each record counted as success
\* and exactly one failed entry (table, id, reason) for each record counted
\* as failed, and nothing else: inside and at the end of each process_table
\* call the entries of its table number success_count and failed_count, the
\* returned stats agree with them, and between calls and at the end the whole
\* log numbers the totals.
C21_LogMatchesCounts ==
    ~args.dry_run =>
        /\ InCall =>
              /\ Cardinality(SuccessIn(table_name)) = success_count
              /\ Cardinality(FailedIn(table_name)) = failed_count
        /\ pc = "returned" =>
              /\ stats.success = Cardinality(SuccessIn(table_name))
              /\ stats.failed = Cardinality(FailedIn(table_name))
        /\ pc \in {"process_table", "exit0"} =>
              /\ Len(results.success) = total_stats.success
              /\ Len(results.failed) = total_stats.failed
        /\ \A t \in Tables, id \in RowIds : OutcomesOf(t, id) <= 1
        /\ \A k \in 1..Len(results.success) :
              LET e == results.success[k]
              IN  /\ e.filename = Filename(e.table, e.row_id)
                  /\ e.image_url = UrlPath(e.table, e.filename)
                  /\ Has("update", e.table, e.row_id, TRUE)
        /\ \A k \in 1..Len(results.failed) :
              LET e == results.failed[k]
              IN  /\ e.reason \in Reasons
                  /\ \E j \in 1..Len(log) :
                        /\ log[j].table = e.table /\ log[j].id = e.row_id
                        /\ log[j].op \in StageOps

C21_Witness ==
    /\ pc = "exit0"
    /\ ~args.dry_run
    /\ args.table = "all"
    /\ SuccessOf("tb_dress", 2) # {}
    /\ FailedWith("tb_makeup_shop", 2, "image_generation_failed")
    /\ total_stats.success = 1 /\ total_stats.failed = 1
    /\ Len(results.success) = 1 /\ Len(results.failed) = 1

(* ===================== properties of the counts ======================= *)
\* the tables process_all_tables has finished and added to its totals
TablesDone ==
    IF pc = "main" THEN {}
    ELSE {TableNames[n] : n \in 1..Len(TableNames)} \ {todo[n] : n \in 1..Len(todo)}
\* the candidates of a table before the run: every row but the first
FoundIn == [t \in Tables |-> Len(db[t]) - 1]
NumSuccessIn == [t \in Tables |-> Cardinality(SuccessIn(t))]
NumFailedIn == [t \in Tables |-> Cardinality(FailedIn(t))]
\* the sum of f over the tables done among the first n
RECURSIVE SumTo(_, _)
SumTo(f, n) ==
    IF n = 0 THEN 0
    ELSE SumTo(f, n - 1) + (IF TableNames[n] \in TablesDone THEN f[TableNames[n]] ELSE 0)
SumDone(f) == SumTo(f, Len(TableNames))

\* C22: whenever process_table returns (live or dry-run, no limit or any
\* integer limit, no candidate at all), success + failed + skipped of the
\* returned counts is the number of candidates found; and the totals of
\* process_all_tables are the sums of the counts of the tables done so far.
C22_CountsAddUp ==
    /\ pc = "returned" =>
          /\ stats.success + stats.failed + stats.skipped = Len(empty_rows)
          /\ Len(empty_rows) = Len(find_empty_image_url_rows(db[table_name]))
                                  + stats.success
          /\ stats.success >= 0 /\ stats.failed >= 0 /\ stats.skipped >= 0
    /\ (args.table = "all" /\ pc \in {"process_table", "exit0"}) =>
          /\ total_stats.success + total_stats.failed + total_stats.skipped
                = SumDone(FoundIn)
          /\ ~args.dry_run =>
                /\ total_stats.success = SumDone(NumSuccessIn)
                /\ total_stats.failed = SumDone(NumFailedIn)
          /\ args.dry_run =>
                /\ total_stats.success = 0 /\ total_stats.failed = 0
                /\ total_stats.skipped = SumDone(FoundIn)

C22_Witness ==
    /\ pc = "exit0"
    /\ args.table = "all"
    /\ ~args.dry_run
    /\ args.limit = Some(1)
    /\ FoundIn["tb_wedding_hall"] = 2
    /\ total_stats = [success |-> 0, failed |-> 1, skipped |-> 1]

(* ===================== properties of the published file =============== *)
\* C23: the file published for a record is the one written locally for it
\* in this pass: every file on the remote host has the content this pass
\* downloaded, and a record whose download failed in this pass has nothing
\* published and does not end as success, even when the output directory
\* holds a file of its name from an earlier run.
C23_PublishedFileIsFresh ==
    /\ \A f \in remoteFiles : f.content = "fresh"
    /\ \A t \in Tables, id \in RowIds :
          Has("download", t, id, FALSE) =>
              /\ ~Has("upload", t, id, TRUE)
              /\ SuccessOf(t, id) = {}

(* ===================== properties of the retried records ============== *)
\* the reference a candidate row had before the run (initial_rows)
InitialUrl(id) == IF id % 2 = 0 THEN NULL ELSE EmptyStr

\* C24: a run leaves the reference field as it was for every record that
\* ended as failed (whatever the reason), that the limit cut off, or that a
\* dry run looked at: the row is unchanged and find_empty_image_url_rows
\* still returns it, so the next pass takes it up again.
C24_UnfinishedStayCandidates ==
    /\ \A t \in Tables :
          \A k \in DOMAIN db[t] :
              LET r == db[t][k]
              IN  (r.id # 1 /\ ~Has("update", t, r.id, TRUE)) =>
                      /\ r.image_url = InitialUrl(r.id)
                      /\ r.id \in IdsOf(find_empty_image_url_rows(db[t]))
    /\ \A t \in Tables, id \in RowIds :
          (FailedOf(t, id) # {} \/ args.dry_run) => ~Has("update", t, id, TRUE)
    /\ (pc = "returned" /\ ~args.dry_run) =>
          \A k \in (Len(rows_to_process) + 1)..Len(empty_rows) :
              /\ ~Has("update", table_name, empty_rows[k].id, TRUE)
              /\ EventsOf("prompt", table_name, empty_rows[k].id) = {}
    /\ \A t \in Tables : db[t][1].image_url = UrlPath(t, Filename(t, 1))

C24_Witness ==
    /\ pc = "exit0"
    /\ ~args.dry_run
    /\ args.limit = Some(1)
    /\ FailedWith("tb_dress", 2, "db_update_failed")
    /\ OutcomesOf("tb_dress", 3) = 0
    /\ IdsOf(find_empty_image_url_rows(db["tb_dress"])) = {2, 3}

====
